---------------------------- MODULE Spec2Model ----------------------------
(***************************************************************************)
(* A model of android/pkg (android_pkgs.go, debug_linux.go): the package   *)
(* registry built from packages.list and packages.xml.                     *)
(*                                                                         *)
(* Strings the code inspects character by character (package names, the   *)
(* numeric literals of packages.list, the hex of a certificate) are        *)
(* sequences of one-character strings; strings the code only copies       *)
(* (paths, seinfo) are plain strings.  A nil pointer or nil slice is the   *)
(* empty sequence; a non-nil pointer is a one-element sequence.            *)
(***************************************************************************)
EXTENDS Integers, Sequences, FiniteSets, TLC

\* Bound of the model: the clock stops after MaxTime.
MaxTime == 2

\* sha1.Size: the length of a SHA1 digest
Sha1Size == 20

\* os.Getuid() of the calling process
Getuid == 1

---------------------------------------------------------------------------
(* type Pkg struct                                                         *)

ZeroPkg ==
    [Name |-> <<>>, DataPath |-> "", Path |-> "", Uid |-> 0,
     SEinfo |-> "", Gid |-> <<>>, Cert |-> <<>>, Certhash |-> <<>>]

\* error values: nil, or what fmt.Errorf / os.Open report
NoErr == [kind |-> "nil", text |-> <<>>, pkg |-> <<>>]
Err(k, t, p) == [kind |-> k, text |-> t, pkg |-> p]

---------------------------------------------------------------------------
(* strconv.ParseUint(s, 0, 32)                                             *)

Digits == <<"0", "1", "2", "3", "4", "5", "6", "7", "8", "9",
            "a", "b", "c", "d", "e", "f">>
UpperDigits == <<"0", "1", "2", "3", "4", "5", "6", "7", "8", "9",
                 "A", "B", "C", "D", "E", "F">>

\* the value of digit character c, 16 when c is no digit
DigitVal(c) ==
    IF \E i \in 1..16 : Digits[i] = c
    THEN (CHOOSE i \in 1..16 : Digits[i] = c) - 1
    ELSE IF \E i \in 1..16 : UpperDigits[i] = c
         THEN (CHOOSE i \in 1..16 : UpperDigits[i] = c) - 1
         ELSE 16

RECURSIVE ParseDigits(_, _, _)
\* the digits of s in the given base, most significant first, on top of acc;
\* -1 on a character that is no digit of the base
ParseDigits(s, base, acc) ==
    IF s = <<>> THEN acc
    ELSE IF DigitVal(Head(s)) >= base THEN -1
         ELSE ParseDigits(Tail(s), base, acc * base + DigitVal(Head(s)))

\* [ok, val]: base 0 takes the base from the prefix (0x, 0b, 0o, 0, none).
\* The literals of the model are far below 2^32, so the range error of
\* bitSize 32 is not modelled.
ParseUint(s) ==
    LET pre2 == IF Len(s) >= 2 THEN <<s[1], s[2]>> ELSE <<>>
        base == IF pre2 \in {<<"0", "x">>, <<"0", "X">>} THEN 16
                ELSE IF pre2 \in {<<"0", "b">>, <<"0", "B">>} THEN 2
                ELSE IF pre2 \in {<<"0", "o">>, <<"0", "O">>} THEN 8
                ELSE IF Len(s) >= 2 /\ s[1] = "0" THEN 8
                ELSE 10
        body == IF pre2 \in {<<"0", "x">>, <<"0", "X">>, <<"0", "b">>,
                             <<"0", "B">>, <<"0", "o">>, <<"0", "O">>}
                THEN SubSeq(s, 3, Len(s))
                ELSE IF base = 8 THEN Tail(s) ELSE s
        v == IF body = <<>> THEN -1 ELSE ParseDigits(body, base, 0)
    IN  IF v < 0
        THEN [ok |-> FALSE, val |-> 0]
        ELSE [ok |-> TRUE, val |-> v]

---------------------------------------------------------------------------
(* bytes.Split(v[5], ",")                                                  *)

RECURSIVE SplitComma(_, _)
\* the pieces of s between commas, cur being the piece under construction
SplitComma(s, cur) ==
    IF s = <<>> THEN <<cur>>
    ELSE IF Head(s) = "," THEN <<cur>> \o SplitComma(Tail(s), <<>>)
         ELSE SplitComma(Tail(s), Append(cur, Head(s)))

---------------------------------------------------------------------------
(* getself (debug_linux.go): the calling process as a pseudo package       *)

RECURSIVE FormatUint(_)
\* fmt's %v of an unsigned number: its decimal digits
FormatUint(n) ==
    IF n < 10 THEN <<Digits[n + 1]>>
    ELSE Append(FormatUint(n \div 10), Digits[(n % 10) + 1])

CallerPrefix == <<"c", "a", "l", "l", "e", "r", "-", "u", "i", "d", "-">>

\* bp: /system/build.prop can be opened (the process runs on Android)
getself(bp) ==
    IF bp THEN <<>>
    ELSE <<[ZeroPkg EXCEPT !.Name = CallerPrefix \o FormatUint(Getuid),
                           !.Uid = Getuid]>>

---------------------------------------------------------------------------
(* The inputs: the contents the two files take.                            *)

\* the gids field of a package without supplementary groups
None == <<"n", "o", "n", "e">>

NameA == <<"a">>
NameB == <<"b">>
NameC == <<"c">>
SelfName == CallerPrefix \o FormatUint(Getuid)

\* a valid certificate in lower-case hex, and hex that is no DER
CertHex == <<"3", "0", "a", "b">>
NotDerHex == <<"0", "0", "a", "b">>

XPkg(n, path, uid, shared, key) ==
    [Name |-> n, Path |-> path, Uid |-> uid, SharedUid |-> shared,
     Certstr |-> key]

XDoc(pkgs) == [wellformed |-> TRUE, Pkgs |-> pkgs]

XmlContents ==
    { \* a and b share owner id 2, b through its sharedUserId
      XDoc(<<XPkg(NameA, "/app/a", 2, 0, CertHex),
             XPkg(NameB, "/app/b", 0, 2, <<>>)>>),
      \* two elements named a
      XDoc(<<XPkg(NameA, "/app/a", 2, 0, CertHex),
             XPkg(NameA, "/app/a2", 1, 0, <<>>)>>),
      \* a package with the name of the pseudo package of the caller
      XDoc(<<XPkg(SelfName, "/app/s", 2, 0, <<>>)>>),
      \* a certificate that does not decode
      XDoc(<<XPkg(NameB, "/app/b", 0, 2, <<>>),
             XPkg(NameA, "/app/a", 2, 0, NotDerHex)>>),
      \* not XML
      [wellformed |-> FALSE, Pkgs |-> <<>>] }

\* the package elements parseXML is applied to on its own: either name,
\* userId and sharedUserId zero or not, no certificate, a certificate, hex
\* that is no DER, hex of odd length
XElems ==
    {XPkg(n, "/app/x", u, s, k) :
        n \in {NameA, NameB}, u \in {0, 2}, s \in {0, 7},
        k \in {<<>>, CertHex, NotDerHex, <<"3">>}}

\* the documents of at most two such elements
XmlInputs ==
    {XDoc(<<>>)} \cup {XDoc(<<e>>) : e \in XElems}
        \cup {XDoc(<<e1, e2>>) : e1 \in XElems, e2 \in XElems}

LineA == <<NameA, <<"1">>, "0", "/data/a", "seinfo:a", <<"1", ",", "0", "x", "2">>>>
LineC == <<NameC, <<"2">>, "0", "/data/c", "seinfo:c", None>>
LineC1 == <<NameC, <<"0", "1">>, "1", "/data/c1", "seinfo:c1", <<"3">>>>

\* a second line for a
LineA1 == <<NameA, <<"3">>, "0", "/data/a1", "seinfo:a1", <<"7">>>>

\* the contents of packages.list the merge is applied to on its own: up to
\* three well-formed lines, names repeated or not
GoodLines == {LineA, LineA1, LineC, LineC1}
MergeInputs ==
    {<<>>} \cup {<<l>> : l \in GoodLines}
        \cup {<<l1, l2>> : l1 \in GoodLines, l2 \in GoodLines}
        \cup {<<l1, l2, l3>> :
                 l1 \in GoodLines, l2 \in GoodLines, l3 \in GoodLines}

\* the most fields of a line
MaxFields == 8

\* the texts of the owner id and of the group ids of the lines below: a
\* number, and texts that are no numbers
UidTexts == {<<"2">>, <<"u", "2">>}
GidTexts == {None, <<"3">>, <<"1", ",", "g">>}

\* the line of k fields with owner id u and group ids g, where it has them
FieldsOf(k, u, g) ==
    [i \in 1..k |->
        CASE i = 1 -> NameC
          [] i = 2 -> u
          [] i = 3 -> "0"
          [] i = 4 -> "/data/c"
          [] i = 5 -> "seinfo:c"
          [] i = 6 -> g
          [] OTHER -> "x"]

\* the contents of packages.list parseList is applied to on its own: a line
\* of one to MaxFields fields, alone or after well-formed lines
FieldInputs ==
    {h \o <<FieldsOf(k, u, g)>> :
        h \in {<<>>, <<LineA>>, <<LineA, LineA1>>}, k \in 1..MaxFields,
        u \in UidTexts, g \in GidTexts}

ListContents ==
    { <<>>,
      \* a is in both files (with another owner id here), c only in this one
      <<LineA, <<>>, LineC>>,
      \* two lines named c
      <<LineC, LineC1>>,
      \* an owner id that is no number
      <<LineA, <<NameC, <<"u", "2">>, "0", "/data/c", "seinfo:c", None>>>>,
      \* a line of two fields
      <<LineA, <<NameC, <<"2">>>>>> }

\* the arguments of the lookups: names and owner ids that come and go
NameArgs == {NameA, NameC, SelfName}
UidArgs == {Getuid, 2}

File(st, mt, c) == [st |-> st, mtime |-> mt, content |-> c]

\* what os.Stat and os.Open see of a file that is not there
MissingList == File("missing", 0, <<>>)
MissingXml == File("missing", 0, XDoc(<<>>))

---------------------------------------------------------------------------
(* parseList: packages.list, one line per package.  A file's content is    *)
(* the sequence of its non-empty lines as genlines yields them, each line  *)
(* the sequence of its whitespace-separated fields (bytes.Fields):         *)
(*   <<pkgName, uid, debug, dataPath, seInfo, gids>>                       *)

RECURSIVE ParseGids(_, _, _)
\* the loop over the pieces of v[5]: [err, gid]
ParseGids(z, name, gid) ==
    IF z = <<>> THEN [err |-> NoErr, gid |-> gid]
    ELSE LET g == ParseUint(Head(z))
         IN  IF ~g.ok
             THEN [err |-> Err("gid", Head(z), name), gid |-> <<>>]
             ELSE ParseGids(Tail(z), name, Append(gid, g.val))

\* one iteration of the loop over the lines: [kind, err, pkg] with kind
\* "skip" (no fields), "panic" (an index past the fields), "err" or "pkg"
ParseLine(v) ==
    IF Len(v) = 0 THEN [kind |-> "skip", err |-> NoErr, pkg |-> ZeroPkg]
    ELSE IF Len(v) < 2 THEN [kind |-> "panic", err |-> NoErr, pkg |-> ZeroPkg]
    ELSE LET u == ParseUint(v[2])
         IN  IF ~u.ok
             THEN [kind |-> "err", err |-> Err("uid", v[2], v[1]),
                   pkg |-> ZeroPkg]
             ELSE IF Len(v) < 6
             THEN [kind |-> "panic", err |-> NoErr, pkg |-> ZeroPkg]
             ELSE LET g == IF v[6] # None
                           THEN ParseGids(SplitComma(v[6], <<>>), v[1], <<>>)
                           ELSE [err |-> NoErr, gid |-> <<>>]
                  IN  IF g.err # NoErr
                      THEN [kind |-> "err", err |-> g.err, pkg |-> ZeroPkg]
                      ELSE [kind |-> "pkg", err |-> NoErr,
                            pkg |-> [ZeroPkg EXCEPT !.Name = v[1],
                                                    !.Uid = u.val,
                                                    !.DataPath = v[4],
                                                    !.SEinfo = v[5],
                                                    !.Gid = g.gid]]

RECURSIVE ParseLines(_, _)
\* the loop over the channel of lines: [kind, err, pkgs], kind "ok", "err"
\* or "panic"
ParseLines(lines, pa) ==
    IF lines = <<>> THEN [kind |-> "ok", err |-> NoErr, pkgs |-> pa]
    ELSE LET r == ParseLine(Head(lines))
         IN  CASE r.kind = "skip" -> ParseLines(Tail(lines), pa)
               [] r.kind = "pkg" -> ParseLines(Tail(lines), Append(pa, r.pkg))
               [] OTHER -> [kind |-> r.kind, err |-> r.err, pkgs |-> <<>>]

\* the loop of parseList over each content of ListContents, MergeInputs and
\* FieldInputs, computed once
ListParses ==
    [c \in ListContents \cup MergeInputs \cup FieldInputs |->
        ParseLines(c, <<>>)]

\* a file is [st, mtime, content]; st is "ok", "missing" (os.Stat and os.Open
\* fail) or "unreadable" (os.Stat succeeds, os.Open fails)
parseList(f) ==
    IF f.st # "ok"
    THEN [kind |-> "err", err |-> Err("open", <<>>, <<>>), pkgs |-> <<>>]
    ELSE ListParses[f.content]

---------------------------------------------------------------------------
(* parseXML: packages.xml.  A file's content is [wellformed, Pkgs], Pkgs   *)
(* the package elements as xml.Unmarshal fills them:                       *)
(*   [Name, Path, Uid, SharedUid, Certstr]                                 *)

RECURSIVE DecodePairs(_)
\* the bytes of an even-length sequence of hex digits
DecodePairs(h) ==
    IF h = <<>> THEN <<>>
    ELSE <<DigitVal(h[1]) * 16 + DigitVal(h[2])>>
             \o DecodePairs(SubSeq(h, 3, Len(h)))

\* hex.DecodeString: [ok, bytes]
HexDecodeString(h) ==
    IF Len(h) % 2 # 0 \/ \E i \in 1..Len(h) : DigitVal(h[i]) = 16
    THEN [ok |-> FALSE, bytes |-> <<>>]
    ELSE [ok |-> TRUE, bytes |-> DecodePairs(h)]

\* x509.ParseCertificate, as far as the model looks into DER: the bytes
\* are a certificate when they start with the SEQUENCE tag 0x30 and carry
\* something after it.  [ok, cert]
ParseCertificate(b) ==
    IF Len(b) >= 2 /\ b[1] = 48
    THEN [ok |-> TRUE, cert |-> <<[Raw |-> b]>>]
    ELSE [ok |-> FALSE, cert |-> <<>>]

RECURSIVE SumBytes(_)
SumBytes(b) == IF b = <<>> THEN 0 ELSE Head(b) + SumBytes(Tail(b))

\* sha1.Sum: a digest of Sha1Size bytes that depends on every byte of b
Sha1Sum(b) ==
    [i \in 1..Sha1Size |-> (SumBytes(b) * i + Len(b) + b[1 + (i % Len(b))]) % 256]

\* ParseXPkg with the certificate stored and the fingerprint left unset
ParseXPkgNoHash(x) ==
    LET uid == IF x.Uid > 0 THEN x.Uid
               ELSE IF x.SharedUid > 0 THEN x.SharedUid ELSE 0
        y == [ZeroPkg EXCEPT !.Name = x.Name, !.Path = x.Path, !.Uid = uid]
    IN  IF uid = 0 THEN [err |-> Err("nouid", <<>>, x.Name), pkg |-> ZeroPkg]
        ELSE IF Len(x.Certstr) > 0
        THEN LET b == HexDecodeString(x.Certstr)
             IN  IF ~b.ok
                 THEN [err |-> Err("hex", x.Certstr, x.Name), pkg |-> ZeroPkg]
                 ELSE IF Len(b.bytes) > 0
                 THEN LET crt == ParseCertificate(b.bytes)
                      IN  IF ~crt.ok
                          THEN [err |-> Err("x509", x.Certstr, x.Name),
                                pkg |-> ZeroPkg]
                          ELSE [err |-> NoErr,
                                pkg |-> [y EXCEPT !.Cert = crt.cert]]
                 ELSE [err |-> NoErr, pkg |-> y]
        ELSE [err |-> NoErr, pkg |-> y]

\* ParseXPkg with sharedUserId preferred to userId
ParseXPkgSharedFirst(x) ==
    LET uid == IF x.SharedUid > 0 THEN x.SharedUid
               ELSE IF x.Uid > 0 THEN x.Uid ELSE 0
        y == [ZeroPkg EXCEPT !.Name = x.Name, !.Path = x.Path, !.Uid = uid]
    IN  IF uid = 0 THEN [err |-> Err("nouid", <<>>, x.Name), pkg |-> ZeroPkg]
        ELSE IF Len(x.Certstr) > 0
        THEN LET b == HexDecodeString(x.Certstr)
             IN  IF ~b.ok
                 THEN [err |-> Err("hex", x.Certstr, x.Name), pkg |-> ZeroPkg]
                 ELSE IF Len(b.bytes) > 0
                 THEN LET crt == ParseCertificate(b.bytes)
                      IN  IF ~crt.ok
                          THEN [err |-> Err("x509", x.Certstr, x.Name),
                                pkg |-> ZeroPkg]
                          ELSE [err |-> NoErr,
                                pkg |-> [y EXCEPT
                                           !.Cert = crt.cert,
                                           !.Certhash = Sha1Sum(b.bytes)]]
                 ELSE [err |-> NoErr, pkg |-> y]
        ELSE [err |-> NoErr, pkg |-> y]

\* the body of the loop over v.Pkgs: [err, pkg]
ParseXPkg(x) ==
    LET uid == IF x.Uid > 0 THEN x.Uid
               ELSE IF x.SharedUid > 0 THEN x.SharedUid ELSE 0
        y == [ZeroPkg EXCEPT !.Name = x.Name, !.Path = x.Path, !.Uid = uid]
    IN  IF uid = 0 THEN [err |-> Err("nouid", <<>>, x.Name), pkg |-> ZeroPkg]
        ELSE IF Len(x.Certstr) > 0
        THEN LET b == HexDecodeString(x.Certstr)
             IN  IF ~b.ok
                 THEN [err |-> Err("hex", x.Certstr, x.Name), pkg |-> ZeroPkg]
                 ELSE IF Len(b.bytes) > 0
                 THEN LET crt == ParseCertificate(b.bytes)
                      IN  IF ~crt.ok
                          THEN [err |-> Err("x509", x.Certstr, x.Name),
                                pkg |-> ZeroPkg]
                          ELSE [err |-> NoErr,
                                pkg |-> [y EXCEPT
                                           !.Cert = crt.cert,
                                           !.Certhash = Sha1Sum(b.bytes)]]
                 ELSE [err |-> NoErr, pkg |-> y]
        ELSE [err |-> NoErr, pkg |-> y]

RECURSIVE ParseXPkgs(_, _)
ParseXPkgs(xs, g) ==
    IF xs = <<>> THEN [kind |-> "ok", err |-> NoErr, pkgs |-> g]
    ELSE LET r == ParseXPkg(Head(xs))
         IN  IF r.err # NoErr
             THEN [kind |-> "err", err |-> r.err, pkgs |-> <<>>]
             ELSE ParseXPkgs(Tail(xs), Append(g, r.pkg))

\* the loop of parseXML over each well-formed content of XmlContents and
\* XmlInputs, computed once
XmlParses ==
    [c \in {x \in XmlContents \cup XmlInputs : x.wellformed} |->
        ParseXPkgs(c.Pkgs, <<>>)]

parseXML(f) ==
    IF f.st # "ok"
    THEN [kind |-> "err", err |-> Err("open", <<>>, <<>>), pkgs |-> <<>>]
    ELSE IF ~f.content.wellformed
    THEN [kind |-> "err", err |-> Err("xml", <<>>, <<>>), pkgs |-> <<>>]
    ELSE XmlParses[f.content]

---------------------------------------------------------------------------
(* PackageDB.refresh.  A Go map is a function whose domain is its key set; *)
(* the nil map and the empty map are the empty function.                   *)

EmptyMap == <<>>

RECURSIVE FromXML(_, _)
\* for _, p := range xx { byName[p.Name] = p }
FromXML(xx, byName) ==
    IF xx = <<>> THEN byName
    ELSE FromXML(Tail(xx), (Head(xx).Name :> Head(xx)) @@ byName)

\* MergeOne with an overlay that copies the owner id of the line as well
MergeOneWithUid(p, byName) ==
    IF p.Name \in DOMAIN byName
    THEN [byName EXCEPT ![p.Name].Gid = p.Gid,
                        ![p.Name].DataPath = p.DataPath,
                        ![p.Name].Uid = p.Uid]
    ELSE (p.Name :> p) @@ byName

\* the body of the loop over ll: overlay onto the record of that name when
\* there is one, insert otherwise
MergeOne(p, byName) ==
    IF p.Name \in DOMAIN byName
    THEN [byName EXCEPT ![p.Name].Gid = p.Gid,
                        ![p.Name].DataPath = p.DataPath]
    ELSE (p.Name :> p) @@ byName

RECURSIVE MergeList(_, _)
MergeList(ll, byName) ==
    IF ll = <<>> THEN byName
    ELSE MergeList(Tail(ll), MergeOne(Head(ll), byName))

\* byUid[p.Uid] = append(byUid[p.Uid], p)
AppendUid(p, byUid) ==
    IF p.Uid \in DOMAIN byUid
    THEN [byUid EXCEPT ![p.Uid] = Append(@, p)]
    ELSE (p.Uid :> <<p>>) @@ byUid

RECURSIVE ReverseLookup(_, _, _)
\* for _, p := range byName, the keys visited in the order ord
ReverseLookup(byName, ord, byUid) ==
    IF ord = <<>> THEN byUid
    ELSE ReverseLookup(byName, Tail(ord), AppendUid(byName[Head(ord)], byUid))

\* the orders in which a range over a map with key set S may visit its keys:
\* Go leaves the iteration order of a map unspecified
RangeOrders(S) ==
    {o \in [1..Cardinality(S) -> S] :
        \A i, j \in 1..Cardinality(S) : i # j => o[i] # o[j]}

\* AddSelf without the append to the bucket of the caller's uid
AddSelfNameOnly(self, maps) ==
    IF self = <<>> THEN maps
    ELSE [byName |-> (self[1].Name :> self[1]) @@ maps.byName,
          byUid |-> maps.byUid]

\* if p := getself(); p != nil { byUid[..] = append(..); byName[p.Name] = p }
AddSelf(self, maps) ==
    IF self = <<>> THEN maps
    ELSE [byName |-> (self[1].Name :> self[1]) @@ maps.byName,
          byUid |-> AppendUid(self[1], maps.byUid)]

\* the two maps refresh builds from the parsed files, for one iteration order
BuildMaps(xx, ll, ord, bp) ==
    LET byName == MergeList(ll, FromXML(xx, EmptyMap))
    IN  AddSelf(getself(bp),
                [byName |-> byName,
                 byUid |-> ReverseLookup(byName, ord, EmptyMap)])

\* the key set of the name map at the time refresh ranges over it
MergedNames(xx, ll) == DOMAIN MergeList(ll, FromXML(xx, EmptyMap))

\* the assignments that publish the new maps and the time of the update
Publish(d, maps, t) ==
    [byName |-> maps.byName, byUid |-> maps.byUid, lastUpd |-> t]

\* refresh with the time of the update stamped before the files are parsed
refreshStampsFirst(d, lf, xf, bp, t) ==
    LET l == parseList(lf)
        x == parseXML(xf)
        d1 == [d EXCEPT !.lastUpd = t]
    IN  IF l.kind # "ok" THEN {[kind |-> l.kind, err |-> l.err, db |-> d1]}
        ELSE IF x.kind # "ok" THEN {[kind |-> "err", err |-> x.err, db |-> d1]}
        ELSE {[kind |-> "ok", err |-> NoErr,
               db |-> Publish(d, BuildMaps(x.pkgs, l.pkgs, ord, bp), t)] :
                  ord \in RangeOrders(MergedNames(x.pkgs, l.pkgs))}

\* the outcomes of db.refresh() on db value d at time t: [kind, err, db] with
\* kind "ok", "err" (an error is returned) or "panic"
refresh(d, lf, xf, bp, t) ==
    LET l == parseList(lf)
        x == parseXML(xf)
    IN  IF l.kind # "ok" THEN {[kind |-> l.kind, err |-> l.err, db |-> d]}
        ELSE IF x.kind # "ok" THEN {[kind |-> "err", err |-> x.err, db |-> d]}
        ELSE {[kind |-> "ok", err |-> NoErr,
               db |-> Publish(d, BuildMaps(x.pkgs, l.pkgs, ord, bp), t)] :
                  ord \in RangeOrders(MergedNames(x.pkgs, l.pkgs))}

\* os.Stat succeeds
StatOK(f) == f.st # "missing"

\* Stale with the comparison of packages.xml left out
StaleListOnly(d, lf, xf) == lf.mtime > d.lastUpd

\* Stale once the registry has been built, never before
StaleOnceBuilt(d, lf, xf) ==
    d.lastUpd > 0 /\ (lf.mtime > d.lastUpd \/ xf.mtime > d.lastUpd)

\* Stale with modification times equal to lastUpd counted as newer
StaleOrEqual(d, lf, xf) == lf.mtime >= d.lastUpd \/ xf.mtime >= d.lastUpd

\* mt0.After(db.lastUpd) || mt1.After(db.lastUpd)
Stale(d, lf, xf) == lf.mtime > d.lastUpd \/ xf.mtime > d.lastUpd

\* maybeRefresh without the returns on a failed os.Stat
maybeRefreshNoStat(d, lf, xf, bp, t) ==
    IF ~Stale(d, lf, xf)
    THEN {[path |-> "fresh", kind |-> "ok", err |-> NoErr, db |-> d]}
    ELSE {[path |-> "refresh", kind |-> r.kind, err |-> r.err, db |-> r.db] :
             r \in refresh(d, lf, xf, bp, t)}

\* the outcomes of db.maybeRefresh(): [path, kind, err, db]; path names the
\* branch taken, and err is the error of refresh, which maybeRefresh drops
maybeRefresh(d, lf, xf, bp, t) ==
    IF ~StatOK(lf) \/ ~StatOK(xf)
    THEN {[path |-> "nostat", kind |-> "ok", err |-> NoErr, db |-> d]}
    ELSE IF ~Stale(d, lf, xf)
    THEN {[path |-> "fresh", kind |-> "ok", err |-> NoErr, db |-> d]}
    ELSE {[path |-> "refresh", kind |-> r.kind, err |-> r.err, db |-> r.db] :
             r \in refresh(d, lf, xf, bp, t)}

\* the reads that follow maybeRefresh in the three lookups
ReadByName(d, nm) == IF nm \in DOMAIN d.byName THEN <<d.byName[nm]>> ELSE <<>>
ReadListByUid(d, uid) == IF uid \in DOMAIN d.byUid THEN d.byUid[uid] ELSE <<>>
ReadByUid(d, uid) == IF uid \in DOMAIN d.byUid THEN <<d.byUid[uid][1]>> ELSE <<>>

---------------------------------------------------------------------------
(* The state.                                                              *)

VARIABLES
    listF,      \* packages.list
    xmlF,       \* packages.xml
    buildprop,  \* /system/build.prop can be opened
    now,        \* the clock
    db,         \* the PackageDB: [byName, byUid, lastUpd]
    phase,      \* "new" before OpenPackageDB, "open" after, "crashed"
    last,       \* the last call and what it returned
    snap,       \* history: whether db is what the last completed refresh
                \* published, and what that refresh published when it is not
    wr,         \* a caller whose lookup runs statement by statement
    rd,         \* a second caller, running beside the first
    ifd,        \* parseList: the opened packages.list and its reader
    ch,         \* genlines: the channel of lines
    gen,        \* genlines: the goroutine that reads the lines
    par,        \* parseList: the loop that receives the lines
    heap,       \* the records and the maps allocated so far, by address
    ptr,        \* the PackageDB as pointers into heap
    pub,        \* history: the maps published and the records returned,
                \* with what they held then
    it          \* the goroutine of an iterator, its channel and its reader

\* the registry as objects in memory
mem == <<heap, ptr, pub, it>>

\* the variables of the runs followed statement by statement
side == <<ifd, ch, gen, par, mem>>

vars == <<listF, xmlF, buildprop, now, db, phase, last, snap, wr, rd, side>>

\* &PackageDB{list: list, xml: xml}: nil maps, the zero time
ZeroDB == [byName |-> EmptyMap, byUid |-> EmptyMap, lastUpd |-> 0]

NoCall ==
    [op |-> "none", nm |-> <<>>, uid |-> 0, path |-> "none", err |-> NoErr,
     ret |-> <<>>, t |-> 0]

Call(op, nm, uid, path, err, ret, t) ==
    [op |-> op, nm |-> nm, uid |-> uid, path |-> path, err |-> err,
     ret |-> ret, t |-> t]

NoMaps == [byName |-> EmptyMap, byUid |-> EmptyMap]

\* the history variable when db is what the last completed refresh published
Whole == [same |-> TRUE, db |-> ZeroDB]

\* what the last completed refresh published
LastWhole == IF snap.same THEN db ELSE snap.db

\* the history variable for registry value d when the last completed refresh
\* published s
Mark(d, s) == IF d = s THEN Whole ELSE [same |-> FALSE, db |-> s]

\* a caller: where it is in its lookup (pc), the branch maybeRefresh took
\* (path), and the locals ll and byName, byUid of refresh
Idle == [pc |-> "idle", path |-> "none", ll |-> <<>>, maps |-> NoMaps]
At(pc, path, ll, maps) == [pc |-> pc, path |-> path, ll |-> ll, maps |-> maps]

\* no record and no map allocated, nil maps, no iterator
EmptyHeap == [rec |-> <<>>, nm |-> <<>>, um |-> <<>>]
NoIter == [pc |-> "none", by |-> "none", m |-> 0, seen |-> {}, buf |-> <<>>,
           closed |-> FALSE, out |-> <<>>]
NoHeap ==
    /\ heap = EmptyHeap
    /\ ptr = [byName |-> 0, byUid |-> 0, lastUpd |-> 0]
    /\ pub = [snaps |-> <<>>, got |-> {}]
    /\ it = NoIter

\* no run of parseList is being followed statement by statement
NoHandoff ==
    /\ ifd = [rest |-> <<>>, closed |-> TRUE, fail |-> FALSE]
    /\ ch = [buf |-> <<>>, closed |-> FALSE]
    /\ gen = [pc |-> "none", b |-> <<>>]
    /\ par = [pc |-> "none", pa |-> <<>>, err |-> NoErr]
    /\ NoHeap

Init ==
    /\ now = 1
    /\ listF \in {File("ok", 1, c) : c \in ListContents} \cup {MissingList}
    /\ xmlF \in {File("ok", 1, c) : c \in XmlContents}
                    \cup {MissingXml, File("unreadable", 1, XDoc(<<>>))}
    /\ buildprop \in BOOLEAN
    /\ db = ZeroDB
    /\ phase = "new"
    /\ last = NoCall
    /\ snap = Whole
    /\ wr = Idle
    /\ rd = Idle
    /\ NoHandoff

---------------------------------------------------------------------------
(* The environment: the files change, time passes.                         *)

WriteList ==
    /\ phase = "open"
    /\ \E c \in ListContents : listF' = File("ok", now, c)
    /\ last' = NoCall
    /\ UNCHANGED <<xmlF, buildprop, now, db, phase, snap, wr, rd>>
    /\ UNCHANGED side

WriteXml ==
    /\ phase = "open"
    /\ \E c \in XmlContents : xmlF' = File("ok", now, c)
    /\ last' = NoCall
    /\ UNCHANGED <<listF, buildprop, now, db, phase, snap, wr, rd>>
    /\ UNCHANGED side

\* packages.list is removed
HideList ==
    /\ phase = "open"
    /\ listF' = MissingList
    /\ last' = NoCall
    /\ UNCHANGED <<xmlF, buildprop, now, db, phase, snap, wr, rd>>
    /\ UNCHANGED side

\* packages.xml is removed, or replaced by a file the process may not read
HideXml ==
    /\ phase = "open"
    /\ xmlF' \in {MissingXml, File("unreadable", now, XDoc(<<>>))}
    /\ last' = NoCall
    /\ UNCHANGED <<listF, buildprop, now, db, phase, snap, wr, rd>>
    /\ UNCHANGED side

Tick ==
    /\ phase = "open"
    /\ now < MaxTime
    /\ now' = now + 1
    /\ last' = NoCall
    /\ UNCHANGED <<listF, xmlF, buildprop, db, phase, snap, wr, rd>>
    /\ UNCHANGED side

---------------------------------------------------------------------------
(* The calls.                                                              *)

\* OpenPackageDB: db, err := refresh() on the new PackageDB
OpenPackageDB ==
    /\ phase = "new"
    /\ \E r \in refresh(ZeroDB, listF, xmlF, buildprop, now) :
          /\ db' = r.db
          /\ snap' = Whole
          /\ phase' = IF r.kind = "panic" THEN "crashed" ELSE "open"
          /\ last' = Call("OpenPackageDB", <<>>, 0, "refresh", r.err, <<>>, 0)
    /\ UNCHANGED <<listF, xmlF, buildprop, now, wr, rd>>
    /\ UNCHANGED side

GetByName ==
    /\ phase = "open"
    /\ wr.pc = "idle" /\ rd.pc = "idle"
    /\ \E m \in maybeRefresh(db, listF, xmlF, buildprop, now) :
       \E nm \in NameArgs :
          /\ db' = m.db
          /\ snap' = Whole
          /\ phase' = IF m.kind = "panic" THEN "crashed" ELSE "open"
          /\ last' = IF m.kind = "panic"
                     THEN Call("GetByName", nm, 0, "panic", NoErr, <<>>, 0)
                     ELSE Call("GetByName", nm, 0, m.path, NoErr,
                               ReadByName(m.db, nm), 0)
    /\ UNCHANGED <<listF, xmlF, buildprop, now, wr, rd>>
    /\ UNCHANGED side

GetListByUid ==
    /\ phase = "open"
    /\ wr.pc = "idle" /\ rd.pc = "idle"
    /\ \E m \in maybeRefresh(db, listF, xmlF, buildprop, now) :
       \E uid \in UidArgs :
          /\ db' = m.db
          /\ snap' = Whole
          /\ phase' = IF m.kind = "panic" THEN "crashed" ELSE "open"
          /\ last' = IF m.kind = "panic"
                     THEN Call("GetListByUid", <<>>, uid, "panic", NoErr, <<>>, 0)
                     ELSE Call("GetListByUid", <<>>, uid, m.path, NoErr,
                               ReadListByUid(m.db, uid), 0)
    /\ UNCHANGED <<listF, xmlF, buildprop, now, wr, rd>>
    /\ UNCHANGED side

GetByUid ==
    /\ phase = "open"
    /\ wr.pc = "idle" /\ rd.pc = "idle"
    /\ \E m \in maybeRefresh(db, listF, xmlF, buildprop, now) :
       \E uid \in UidArgs :
          /\ db' = m.db
          /\ snap' = Whole
          /\ phase' = IF m.kind = "panic" THEN "crashed" ELSE "open"
          /\ last' = IF m.kind = "panic"
                     THEN Call("GetByUid", <<>>, uid, "panic", NoErr, <<>>, 0)
                     ELSE Call("GetByUid", <<>>, uid, m.path, NoErr,
                               ReadByUid(m.db, uid), 0)
    /\ UNCHANGED <<listF, xmlF, buildprop, now, wr, rd>>
    /\ UNCHANGED side

LastUpdate ==
    /\ phase = "open"
    /\ wr.pc = "idle" /\ rd.pc = "idle"
    /\ last' = Call("LastUpdate", <<>>, 0, "none", NoErr, <<>>, db.lastUpd)
    /\ UNCHANGED <<listF, xmlF, buildprop, now, db, phase, snap, wr, rd>>
    /\ UNCHANGED side

Next ==
    \/ WriteList
    \/ WriteXml
    \/ HideList
    \/ HideXml
    \/ Tick
    \/ OpenPackageDB
    \/ GetByName
    \/ GetListByUid
    \/ GetByUid
    \/ LastUpdate

Spec == Init /\ [][Next]_vars

---------------------------------------------------------------------------
(* Two callers of one PackageDB.  The code takes no lock, so the           *)
(* statements of one caller's lookup interleave with the other caller and  *)
(* with the environment.  The lookup of wr runs statement by statement;    *)
(* rd runs its maybeRefresh in one piece and reads afterwards.             *)

\* the contents the files take while two callers run: a and b in
\* packages.xml, or a alone under another owner id; a and c in
\* packages.list, or nothing
ConcXmlContents ==
    { XDoc(<<XPkg(NameA, "/app/a", 2, 0, CertHex),
             XPkg(NameB, "/app/b", 0, 2, <<>>)>>),
      XDoc(<<XPkg(NameA, "/app/a", 2, 0, CertHex),
             XPkg(NameA, "/app/a2", 1, 0, <<>>)>>) }
ConcListContents == {<<>>, <<LineA, <<>>, LineC>>}

\* the lookups the two callers make
LookupCalls ==
    { Call("GetByName", NameA, 0, "none", NoErr, <<>>, 0),
      Call("GetListByUid", <<>>, 2, "none", NoErr, <<>>, 0),
      Call("GetByUid", <<>>, 2, "none", NoErr, <<>>, 0) }

InitConc ==
    /\ now = 1
    /\ listF \in {File("ok", 1, c) : c \in ConcListContents}
    /\ xmlF \in {File("ok", 1, c) : c \in ConcXmlContents}
    /\ buildprop \in BOOLEAN
    /\ db = ZeroDB
    /\ phase = "new"
    /\ last = NoCall
    /\ snap = Whole
    /\ wr = Idle
    /\ rd = Idle
    /\ NoHandoff

ConcWriteList ==
    /\ phase = "open"
    /\ \E c \in ConcListContents : listF' = File("ok", now, c)
    /\ last' = NoCall
    /\ UNCHANGED <<xmlF, buildprop, now, db, phase, snap, wr, rd>>
    /\ UNCHANGED side

ConcWriteXml ==
    /\ phase = "open"
    /\ \E c \in ConcXmlContents : xmlF' = File("ok", now, c)
    /\ last' = NoCall
    /\ UNCHANGED <<listF, buildprop, now, db, phase, snap, wr, rd>>
    /\ UNCHANGED side

\* the read after maybeRefresh, and the return
Answer(c, path) ==
    CASE c.op = "GetByName" ->
            Call(c.op, c.nm, 0, path, NoErr, ReadByName(db, c.nm), 0)
      [] c.op = "GetListByUid" ->
            Call(c.op, <<>>, c.uid, path, NoErr, ReadListByUid(db, c.uid), 0)
      [] c.op = "GetByUid" ->
            Call(c.op, <<>>, c.uid, path, NoErr, ReadByUid(db, c.uid), 0)

\* maybeRefresh up to the comparison of the modification times
WCheck ==
    /\ phase = "open"
    /\ wr.pc = "idle"
    /\ wr' = IF ~StatOK(listF) \/ ~StatOK(xmlF)
             THEN At("read", "nostat", <<>>, NoMaps)
             ELSE IF ~Stale(db, listF, xmlF)
             THEN At("read", "fresh", <<>>, NoMaps)
             ELSE At("parseList", "refresh", <<>>, NoMaps)
    /\ last' = NoCall
    /\ UNCHANGED <<listF, xmlF, buildprop, now, db, phase, snap, rd>>
    /\ UNCHANGED side

\* ll, err := parseList(db.list)
WParseList ==
    /\ phase = "open"
    /\ wr.pc = "parseList"
    /\ LET l == parseList(listF)
       IN  /\ phase' = IF l.kind = "panic" THEN "crashed" ELSE "open"
           /\ wr' = IF l.kind = "ok"
                    THEN At("parseXML", "refresh", l.pkgs, NoMaps)
                    ELSE At("read", "refresh", <<>>, NoMaps)
    /\ UNCHANGED <<listF, xmlF, buildprop, now, db, last, snap, rd>>
    /\ UNCHANGED side

\* xx, err := parseXML(db.xml), and the new maps built from xx and ll
WParseXML ==
    /\ phase = "open"
    /\ wr.pc = "parseXML"
    /\ LET x == parseXML(xmlF)
       IN  IF x.kind = "ok"
           THEN \E ord \in RangeOrders(MergedNames(x.pkgs, wr.ll)) :
                   wr' = At("pubName", "refresh", <<>>,
                            BuildMaps(x.pkgs, wr.ll, ord, buildprop))
           ELSE wr' = At("read", "refresh", <<>>, NoMaps)
    /\ UNCHANGED <<listF, xmlF, buildprop, now, db, phase, last, snap, rd>>
    /\ UNCHANGED side

\* db.byName = byName
WPubName ==
    /\ phase = "open"
    /\ wr.pc = "pubName"
    /\ db' = [db EXCEPT !.byName = wr.maps.byName]
    /\ snap' = Mark(db', LastWhole)
    /\ wr' = [wr EXCEPT !.pc = "pubUid"]
    /\ UNCHANGED <<listF, xmlF, buildprop, now, phase, last, rd>>
    /\ UNCHANGED side

\* db.byUid = byUid
WPubUid ==
    /\ phase = "open"
    /\ wr.pc = "pubUid"
    /\ db' = [db EXCEPT !.byUid = wr.maps.byUid]
    /\ snap' = Mark(db', LastWhole)
    /\ wr' = [wr EXCEPT !.pc = "pubTime"]
    /\ UNCHANGED <<listF, xmlF, buildprop, now, phase, last, rd>>
    /\ UNCHANGED side

\* db.lastUpd = time.Now().UTC()
WPubTime ==
    /\ phase = "open"
    /\ wr.pc = "pubTime"
    /\ db' = [db EXCEPT !.lastUpd = now]
    /\ snap' = Mark(db', Publish(db, wr.maps, now))
    /\ wr' = At("read", "refresh", <<>>, NoMaps)
    /\ UNCHANGED <<listF, xmlF, buildprop, now, phase, last, rd>>
    /\ UNCHANGED side

\* the read of the map and the return of the lookup
WRead ==
    /\ phase = "open"
    /\ wr.pc = "read"
    /\ \E c \in LookupCalls : last' = Answer(c, wr.path)
    /\ wr' = Idle
    /\ UNCHANGED <<listF, xmlF, buildprop, now, db, phase, snap, rd>>
    /\ UNCHANGED side

\* the maybeRefresh of the second caller
RCheck ==
    /\ phase = "open"
    /\ rd.pc = "idle"
    /\ \E m \in maybeRefresh(db, listF, xmlF, buildprop, now) :
          /\ db' = m.db
          /\ snap' = IF m.path = "refresh" /\ m.kind = "ok" THEN Whole ELSE snap
          /\ phase' = IF m.kind = "panic" THEN "crashed" ELSE "open"
          /\ rd' = At("read", m.path, <<>>, NoMaps)
    /\ last' = NoCall
    /\ UNCHANGED <<listF, xmlF, buildprop, now, wr>>
    /\ UNCHANGED side

\* the read of the second caller and its return
RRead ==
    /\ phase = "open"
    /\ rd.pc = "read"
    /\ \E c \in LookupCalls : last' = Answer(c, rd.path)
    /\ rd' = Idle
    /\ UNCHANGED <<listF, xmlF, buildprop, now, db, phase, snap, wr>>
    /\ UNCHANGED side

NextConc ==
    \/ ConcWriteList
    \/ ConcWriteXml
    \/ Tick
    \/ OpenPackageDB
    \/ WCheck
    \/ WParseList
    \/ WParseXML
    \/ WPubName
    \/ WPubUid
    \/ WPubTime
    \/ WRead
    \/ RCheck
    \/ RRead

SpecConc == InitConc /\ [][NextConc]_vars

---------------------------------------------------------------------------
(* parseXML on its own, applied to each document of XmlInputs.             *)

InitXML ==
    /\ now = 1
    /\ listF = File("ok", 1, <<>>)
    /\ xmlF \in {File("ok", 1, c) : c \in XmlInputs}
    /\ buildprop = TRUE
    /\ db = ZeroDB
    /\ phase = "new"
    /\ last = NoCall
    /\ snap = Whole
    /\ wr = Idle
    /\ rd = Idle
    /\ NoHandoff

\* xx, err := parseXML(db.xml); path records whether err is nil
ParseXMLCall ==
    /\ phase = "new"
    /\ LET r == parseXML(xmlF)
       IN  last' = Call("parseXML", <<>>, 0, r.kind, r.err, r.pkgs, 0)
    /\ phase' = "parsed"
    /\ UNCHANGED <<listF, xmlF, buildprop, now, db, snap, wr, rd>>
    /\ UNCHANGED side

NextXML == ParseXMLCall

SpecXML == InitXML /\ [][NextXML]_vars

---------------------------------------------------------------------------
(* refresh on its own: OpenPackageDB over each content of MergeInputs.     *)

InitMerge ==
    /\ now = 1
    /\ listF \in {File("ok", 1, c) : c \in MergeInputs}
    /\ xmlF \in {File("ok", 1, c) : c \in XmlContents}
    /\ buildprop \in BOOLEAN
    /\ db = ZeroDB
    /\ phase = "new"
    /\ last = NoCall
    /\ snap = Whole
    /\ wr = Idle
    /\ rd = Idle
    /\ NoHandoff

NextMerge == OpenPackageDB

SpecMerge == InitMerge /\ [][NextMerge]_vars

---------------------------------------------------------------------------
(* parseList and genlines statement by statement: the goroutine that reads *)
(* the lines and the loop that receives them.                              *)

\* make(chan []byte, 10)
ChanCap == 10

\* the most lines that follow the first ones of a file
MaxLines == 12

\* a line of the file as ReadBytes returns it: the fields and whether there
\* are bytes other than the line end (sp), a carriage return, a newline
RawLine(v, sp, cr, nl) == [v |-> v, sp |-> sp, cr |-> cr, nl |-> nl]
TextLine(v) == RawLine(v, TRUE, FALSE, TRUE)

\* an owner id that is no number
LineBadUid == <<NameC, <<"u", "2">>, "0", "/data/c", "seinfo:c", None>>

\* a group id that is no number
LineBadGid == <<NameC, <<"2">>, "0", "/data/c", "seinfo:c", <<"1", ",", "g">>>>

RECURSIVE Repeat(_, _)
Repeat(l, n) == IF n = 0 THEN <<>> ELSE <<l>> \o Repeat(l, n - 1)

\* how the files start: nothing, a line that is an error, a line that is too
\* short, and lines that are skipped before an error
GenHeads ==
    { <<>>,
      <<TextLine(LineBadUid)>>,
      <<TextLine(LineA), TextLine(LineBadGid)>>,
      <<TextLine(<<NameC>>)>>,
      <<TextLine(LineA), RawLine(<<>>, FALSE, FALSE, TRUE),
        RawLine(<<>>, FALSE, TRUE, TRUE), RawLine(<<>>, TRUE, FALSE, TRUE),
        RawLine(LineC, TRUE, TRUE, FALSE)>> }

GenInputs ==
    {h \o Repeat(TextLine(LineA), n) : h \in GenHeads, n \in 0..MaxLines}

\* lines 245-261: the line without its line end; [skip, b]
Strip(l) ==
    IF l.v = <<>> /\ ~l.sp THEN [skip |-> TRUE, b |-> <<>>]
    ELSE [skip |-> FALSE, b |-> l.v]

\* a file shorter than the buffer of bufio is read whole by the first
\* ReadBytes, so the lines (rest) stay readable after Close; the read after
\* the last line returns io.EOF unless the file is closed or the read fails
InitGen ==
    /\ now = 1
    /\ listF = File("ok", 1, <<>>)
    /\ xmlF = File("ok", 1, XDoc(<<>>))
    /\ buildprop = TRUE
    /\ db = ZeroDB
    /\ phase = "new"
    /\ last = NoCall
    /\ snap = Whole
    /\ wr = Idle
    /\ rd = Idle
    /\ \E c \in GenInputs : \E f \in BOOLEAN :
          ifd = [rest |-> c, closed |-> TRUE, fail |-> f]
    /\ ch = [buf |-> <<>>, closed |-> FALSE]
    /\ gen = [pc |-> "none", b |-> <<>>]
    /\ par = [pc |-> "open", pa |-> <<>>, err |-> NoErr]
    /\ NoHeap

\* os.Open, defer ifd.Close(), genlines: make the channel, go fn(rr, ch)
ParOpen ==
    /\ par.pc = "open"
    /\ ifd' = [ifd EXCEPT !.closed = FALSE]
    /\ gen' = [pc |-> "read", b |-> <<>>]
    /\ par' = [par EXCEPT !.pc = "recv"]
    /\ UNCHANGED <<listF, xmlF, buildprop, now, db, phase, last, snap, wr, rd>>
    /\ UNCHANGED mem
    /\ UNCHANGED ch

\* b, err := r.ReadBytes('\n') and the tests up to ch <- b
GenRead ==
    /\ gen.pc = "read"
    /\ IF ifd.rest # <<>>
       THEN LET s == Strip(Head(ifd.rest))
            IN  /\ ifd' = [ifd EXCEPT !.rest = Tail(ifd.rest)]
                /\ gen' = IF s.skip THEN gen ELSE [pc |-> "send", b |-> s.b]
       ELSE IF ~ifd.closed /\ ~ifd.fail
       THEN /\ gen' = [pc |-> "close", b |-> <<>>]
            /\ ifd' = ifd
       \* no byte and an error that is not io.EOF: continue
       ELSE UNCHANGED <<ifd, gen>>
    /\ UNCHANGED <<listF, xmlF, buildprop, now, db, phase, last, snap, wr, rd>>
    /\ UNCHANGED mem
    /\ UNCHANGED <<ch, par>>

\* ch <- b
GenSend ==
    /\ gen.pc = "send"
    /\ Len(ch.buf) < ChanCap
    /\ ch' = [ch EXCEPT !.buf = Append(ch.buf, gen.b)]
    /\ gen' = [pc |-> "read", b |-> <<>>]
    /\ UNCHANGED <<listF, xmlF, buildprop, now, db, phase, last, snap, wr, rd>>
    /\ UNCHANGED mem
    /\ UNCHANGED <<ifd, par>>

\* close(ch)
GenClose ==
    /\ gen.pc = "close"
    /\ ch' = [ch EXCEPT !.closed = TRUE]
    /\ gen' = [pc |-> "done", b |-> <<>>]
    /\ UNCHANGED <<listF, xmlF, buildprop, now, db, phase, last, snap, wr, rd>>
    /\ UNCHANGED mem
    /\ UNCHANGED <<ifd, par>>

\* one iteration of for l := range ch, or its end; a return and a panic run
\* the deferred ifd.Close()
ParRecv ==
    /\ par.pc = "recv"
    /\ IF ch.buf # <<>>
       THEN LET r == ParseLine(Head(ch.buf))
            IN  /\ ch' = [ch EXCEPT !.buf = Tail(ch.buf)]
                /\ par' = CASE r.kind = "skip" -> par
                            [] r.kind = "pkg" ->
                                 [par EXCEPT !.pa = Append(par.pa, r.pkg)]
                            [] r.kind = "err" ->
                                 [pc |-> "returned", pa |-> <<>>,
                                  err |-> r.err]
                            [] OTHER ->
                                 [pc |-> "panicked", pa |-> <<>>,
                                  err |-> NoErr]
                /\ ifd' = [ifd EXCEPT
                             !.closed = r.kind \in {"err", "panic"}]
       ELSE /\ ch.closed
            /\ par' = [par EXCEPT !.pc = "returned"]
            /\ ifd' = [ifd EXCEPT !.closed = TRUE]
            /\ ch' = ch
    /\ UNCHANGED <<listF, xmlF, buildprop, now, db, phase, last, snap, wr, rd>>
    /\ UNCHANGED mem
    /\ UNCHANGED gen

NextGen ==
    \/ ParOpen
    \/ GenRead
    \/ GenSend
    \/ GenClose
    \/ ParRecv

SpecGen == InitGen /\ [][NextGen]_vars

---------------------------------------------------------------------------
(* parseList on its own, over lines of every number of fields.             *)

InitList ==
    /\ now = 1
    /\ listF \in {File("ok", 1, c) : c \in FieldInputs}
    /\ xmlF = File("ok", 1, XDoc(<<>>))
    /\ buildprop = TRUE
    /\ db = ZeroDB
    /\ phase = "new"
    /\ last = NoCall
    /\ snap = Whole
    /\ wr = Idle
    /\ rd = Idle
    /\ NoHandoff

\* ll, err := parseList(db.list); path records how the call ended
ParseListCall ==
    /\ phase = "new"
    /\ LET r == parseList(listF)
       IN  /\ last' = Call("parseList", <<>>, 0, r.kind, r.err, r.pkgs, 0)
           /\ phase' = IF r.kind = "panic" THEN "crashed" ELSE "parsed"
    /\ UNCHANGED <<listF, xmlF, buildprop, now, db, snap, wr, rd>>
    /\ UNCHANGED side

NextList == ParseListCall

SpecList == InitList /\ [][NextList]_vars

---------------------------------------------------------------------------
(* The registry as objects in memory: records and maps have addresses,     *)
(* refresh allocates and fills them, the lookups and the iterators hand    *)
(* out pointers to them.  heap.rec[a] is the Pkg at address a, heap.nm[i]  *)
(* the map from names to addresses with number i, heap.um[i] the map from  *)
(* owner ids to slices of addresses; 0 is nil.                             *)

\* the contents of the files: packages.list empty, with a line for a, and
\* with a line parseList returns an error for; packages.xml with a, and
\* with a and b
HeapListContents ==
    { <<>>,
      <<LineA>>,
      <<LineA, <<NameC, <<"u", "2">>, "0", "/data/c", "seinfo:c", None>>>> }
HeapXmlContents ==
    { XDoc(<<XPkg(NameA, "/app/x", 2, 0, CertHex)>>),
      XDoc(<<XPkg(NameA, "/app/a", 2, 0, CertHex),
             XPkg(NameB, "/app/b", 0, 2, <<>>)>>) }

\* byName := make(map[string]*Pkg) filled in place of the map db holds
NameMapReused(h, p) ==
    IF p.byName = 0
    THEN [h |-> [h EXCEPT !.nm = Append(@, EmptyMap)], id |-> Len(h.nm) + 1]
    ELSE [h |-> h, id |-> p.byName]

\* byName := make(map[string]*Pkg)
NameMapFor(h, p) ==
    [h |-> [h EXCEPT !.nm = Append(@, EmptyMap)], id |-> Len(h.nm) + 1]

RECURSIVE HFromXML(_, _, _)
\* for _, p := range xx { byName[p.Name] = p }, p the record parseXML made
HFromXML(h, id, xx) ==
    IF xx = <<>> THEN h
    ELSE HFromXML([h EXCEPT !.rec = Append(@, Head(xx)),
                            !.nm[id] = (Head(xx).Name :> (Len(h.rec) + 1))
                                           @@ @],
                  id, Tail(xx))

RECURSIVE HMergeList(_, _, _)
\* the loop over ll: a.Gid = p.Gid, a.DataPath = p.DataPath on the record
\* byName points to, or byName[p.Name] = p, p the record parseList made
HMergeList(h, id, ll) ==
    IF ll = <<>> THEN h
    ELSE LET p == Head(ll)
         IN  IF p.Name \in DOMAIN h.nm[id]
             THEN HMergeList([h EXCEPT
                                 !.rec[h.nm[id][p.Name]].Gid = p.Gid,
                                 !.rec[h.nm[id][p.Name]].DataPath =
                                     p.DataPath],
                             id, Tail(ll))
             ELSE HMergeList([h EXCEPT
                                 !.rec = Append(@, p),
                                 !.nm[id] = (p.Name :> (Len(h.rec) + 1))
                                                @@ @],
                             id, Tail(ll))

\* byUid[p.Uid] = append(byUid[p.Uid], p) for the record at address a
HAppendUid(h, uid, a) ==
    LET u == h.rec[a].Uid
    IN  IF u \in DOMAIN h.um[uid]
        THEN [h EXCEPT !.um[uid][u] = Append(@, a)]
        ELSE [h EXCEPT !.um[uid] = (u :> <<a>>) @@ @]

RECURSIVE HReverseLookup(_, _, _, _)
HReverseLookup(h, id, uid, ord) ==
    IF ord = <<>> THEN h
    ELSE HReverseLookup(HAppendUid(h, uid, h.nm[id][Head(ord)]),
                        id, uid, Tail(ord))

\* if p := getself(); p != nil { ... }
HAddSelf(h, id, uid, self) ==
    IF self = <<>> THEN h
    ELSE LET a == Len(h.rec) + 1
             h1 == [h EXCEPT !.rec = Append(@, self[1])]
         IN  [HAppendUid(h1, uid, a) EXCEPT
                 !.nm[id] = (self[1].Name :> a) @@ @]

\* lines 192-220 of refresh on the heap: [h, byName, byUid]
HBuild(h, p, xx, ll, ord, bp) ==
    LET n == NameMapFor(h, p)
        h1 == HMergeList(HFromXML(n.h, n.id, xx), n.id, ll)
        uid == Len(h1.um) + 1
        h2 == HReverseLookup([h1 EXCEPT !.um = Append(@, EmptyMap)],
                             n.id, uid, ord)
    IN  [h |-> HAddSelf(h2, n.id, uid, getself(bp)),
         byName |-> n.id, byUid |-> uid]

\* what the pointers of a registry point to
NameMapOf(h, id) == IF id = 0 THEN EmptyMap ELSE h.nm[id]
UidMapOf(h, id) == IF id = 0 THEN EmptyMap ELSE h.um[id]

\* the addresses a map holds
AddrsOfNames(m) == {m[k] : k \in DOMAIN m}
AddrsOfUids(m) == UNION {{m[k][i] : i \in 1..Len(m[k])} : k \in DOMAIN m}

\* the registry the pointers stand for, as values
Deref(h, p) ==
    [byName |-> [k \in DOMAIN NameMapOf(h, p.byName) |->
                    h.rec[NameMapOf(h, p.byName)[k]]],
     byUid |-> [k \in DOMAIN UidMapOf(h, p.byUid) |->
                   [i \in 1..Len(UidMapOf(h, p.byUid)[k]) |->
                       h.rec[UidMapOf(h, p.byUid)[k][i]]]],
     lastUpd |-> p.lastUpd]

\* history: the two maps just published and what they and their records hold
Snapshot(h, p) ==
    [nm |-> p.byName, um |-> p.byUid,
     byName |-> NameMapOf(h, p.byName), byUid |-> UidMapOf(h, p.byUid),
     rec |-> [a \in AddrsOfNames(NameMapOf(h, p.byName))
                       \cup AddrsOfUids(UidMapOf(h, p.byUid)) |-> h.rec[a]]]

InitHeap ==
    /\ now = 1
    /\ listF \in {File("ok", 1, c) : c \in HeapListContents}
    /\ xmlF \in {File("ok", 1, c) : c \in HeapXmlContents}
    /\ buildprop \in BOOLEAN
    /\ db = ZeroDB
    /\ phase = "new"
    /\ last = NoCall
    /\ snap = Whole
    /\ wr = Idle
    /\ rd = Idle
    /\ NoHandoff

HWriteXml ==
    /\ phase = "open"
    /\ \E c \in HeapXmlContents : xmlF' = File("ok", now, c)
    /\ last' = NoCall
    /\ UNCHANGED <<listF, buildprop, now, db, phase, snap, wr, rd>>
    /\ UNCHANGED side

HWriteList ==
    /\ phase = "open"
    /\ \E c \in HeapListContents : listF' = File("ok", now, c)
    /\ last' = NoCall
    /\ UNCHANGED <<xmlF, buildprop, now, db, phase, snap, wr, rd>>
    /\ UNCHANGED side

\* db.refresh() on the heap, and on the registry as values
HRefresh ==
    LET l == parseList(listF)
        x == parseXML(xmlF)
    IN  IF l.kind = "ok" /\ x.kind = "ok"
        THEN \E ord \in RangeOrders(MergedNames(x.pkgs, l.pkgs)) :
                LET b == HBuild(heap, ptr, x.pkgs, l.pkgs, ord, buildprop)
                IN  /\ heap' = b.h
                    /\ ptr' = [byName |-> b.byName, byUid |-> b.byUid,
                               lastUpd |-> now]
                    /\ db' = Publish(db, BuildMaps(x.pkgs, l.pkgs, ord,
                                                   buildprop), now)
        ELSE UNCHANGED <<heap, ptr, db>>

\* history: the maps published by this step, if any, and the records whose
\* addresses (got) the first lookup that finds any returns
Published(got) ==
    pub' = [snaps |-> IF ptr' # ptr
                      THEN Append(pub.snaps, Snapshot(heap', ptr'))
                      ELSE pub.snaps,
            got |-> IF pub.got # {} THEN pub.got
                    ELSE {[a |-> a, val |-> heap'.rec[a]] : a \in got}]

\* OpenPackageDB
HOpen ==
    /\ phase = "new"
    /\ HRefresh
    /\ Published({})
    /\ phase' = "open"
    /\ last' = NoCall
    /\ UNCHANGED <<listF, xmlF, buildprop, now, snap, wr, rd>>
    /\ UNCHANGED <<ifd, ch, gen, par, it>>

\* the addresses a lookup returns from the registry p points to
HRead(h, p, c) ==
    CASE c.op = "GetByName" ->
            IF c.nm \in DOMAIN NameMapOf(h, p.byName)
            THEN {NameMapOf(h, p.byName)[c.nm]} ELSE {}
      [] c.op = "GetListByUid" ->
            IF c.uid \in DOMAIN UidMapOf(h, p.byUid)
            THEN {UidMapOf(h, p.byUid)[c.uid][i] :
                     i \in 1..Len(UidMapOf(h, p.byUid)[c.uid])}
            ELSE {}
      [] c.op = "GetByUid" ->
            IF c.uid \in DOMAIN UidMapOf(h, p.byUid)
            THEN {UidMapOf(h, p.byUid)[c.uid][1]} ELSE {}

\* GetByName, GetListByUid, GetByUid: maybeRefresh and the read
HLookup ==
    /\ phase = "open"
    /\ IF StatOK(listF) /\ StatOK(xmlF) /\ Stale(db, listF, xmlF)
       THEN HRefresh
       ELSE UNCHANGED <<heap, ptr, db>>
    /\ \E c \in LookupCalls : Published(HRead(heap', ptr', c))
    /\ last' = NoCall
    /\ UNCHANGED <<listF, xmlF, buildprop, now, phase, snap, wr, rd>>
    /\ UNCHANGED <<ifd, ch, gen, par, it>>

\* IterateByName, IterateByUid: make the channel, start the goroutine
ItStart ==
    /\ phase = "open"
    /\ it.pc = "none"
    /\ \E by \in {"name", "uid"} : it' = [NoIter EXCEPT !.pc = "go", !.by = by]
    /\ last' = NoCall
    /\ UNCHANGED <<listF, xmlF, buildprop, now, db, phase, snap, wr, rd>>
    /\ UNCHANGED <<ifd, ch, gen, par, heap, ptr, pub>>

\* range db.byName, range db.byUid: the map is read from db once
ItRange ==
    /\ it.pc = "go"
    /\ it' = [it EXCEPT !.pc = "range",
                        !.m = IF it.by = "name" THEN ptr.byName
                              ELSE ptr.byUid]
    /\ UNCHANGED <<listF, xmlF, buildprop, now, db, phase, last, snap, wr, rd>>
    /\ UNCHANGED <<ifd, ch, gen, par, heap, ptr, pub>>

\* the map an iterator ranges over, as it is now
ItMap == IF it.by = "name" THEN NameMapOf(heap, it.m) ELSE UidMapOf(heap, it.m)

\* one iteration: the next key of the map, in any order, and ch <- p
ItNext ==
    /\ it.pc = "range"
    /\ it.buf = <<>>
    /\ \E k \in DOMAIN ItMap \ it.seen :
          it' = [it EXCEPT !.seen = @ \cup {k}, !.buf = <<ItMap[k]>>]
    /\ UNCHANGED <<listF, xmlF, buildprop, now, db, phase, last, snap, wr, rd>>
    /\ UNCHANGED <<ifd, ch, gen, par, heap, ptr, pub>>

\* close(ch) after the last key
ItClose ==
    /\ it.pc = "range"
    /\ DOMAIN ItMap \ it.seen = {}
    /\ it' = [it EXCEPT !.pc = "done", !.closed = TRUE]
    /\ UNCHANGED <<listF, xmlF, buildprop, now, db, phase, last, snap, wr, rd>>
    /\ UNCHANGED <<ifd, ch, gen, par, heap, ptr, pub>>

\* the caller receives from the channel
ItRecv ==
    /\ it.buf # <<>>
    /\ it' = [it EXCEPT !.buf = <<>>, !.out = Append(@, it.buf[1])]
    /\ UNCHANGED <<listF, xmlF, buildprop, now, db, phase, last, snap, wr, rd>>
    /\ UNCHANGED <<ifd, ch, gen, par, heap, ptr, pub>>

NextHeap ==
    \/ HWriteList
    \/ HWriteXml
    \/ Tick
    \/ HOpen
    \/ HLookup
    \/ ItStart
    \/ ItRange
    \/ ItNext
    \/ ItClose
    \/ ItRecv

SpecHeap == InitHeap /\ [][NextHeap]_vars

---------------------------------------------------------------------------
(* What the properties below speak of.                                     *)

Lookups == {"GetByName", "GetListByUid", "GetByUid"}

\* what the lookup recorded in l reads from the registry value d
ReadOf(d, l) ==
    CASE l.op = "GetByName" -> ReadByName(d, l.nm)
      [] l.op = "GetListByUid" -> ReadListByUid(d, l.uid)
      [] l.op = "GetByUid" -> ReadByUid(d, l.uid)
      [] OTHER -> <<>>

\* a file has a modification time later than the time of the last update
Newer == listF.mtime > db.lastUpd \/ xmlF.mtime > db.lastUpd

\* both files can be stat-ed
CanStat == listF.st # "missing" /\ xmlF.st # "missing"

\* both files parse
ParsesOK == parseList(listF).kind = "ok" /\ parseXML(xmlF).kind = "ok"

\* a rebuild over the files as they are returns an error
RebuildFails ==
    \/ parseList(listF).kind = "err"
    \/ parseList(listF).kind = "ok" /\ parseXML(xmlF).kind = "err"

\* the names the two files mention, read off their contents
XmlNames ==
    IF xmlF.st = "ok"
    THEN {xmlF.content.Pkgs[i].Name : i \in 1..Len(xmlF.content.Pkgs)}
    ELSE {}
ListNames ==
    IF listF.st = "ok"
    THEN {listF.content[i][1] :
             i \in {j \in 1..Len(listF.content) : Len(listF.content[j]) > 0}}
    ELSE {}

\* the last and the first record of a sequence that carries name n
LastNamed(s, n) ==
    s[CHOOSE i \in 1..Len(s) :
         s[i].Name = n /\ \A j \in (i + 1)..Len(s) : s[j].Name # n]
FirstNamed(s, n) ==
    s[CHOOSE i \in 1..Len(s) :
         s[i].Name = n /\ \A j \in 1..(i - 1) : s[j].Name # n]

\* the call just made rebuilt the registry from the files as they are now
JustRebuilt ==
    /\ phase = "open"
    /\ last.op \in Lookups \cup {"OpenPackageDB"}
    /\ last.path = "refresh"
    /\ ParsesOK

\* the sequences with the elements of s in every order
Reorderings(s) ==
    {[i \in 1..Len(s) |-> s[o[i]]] :
        o \in {f \in [1..Len(s) -> 1..Len(s)] :
                  \A i, j \in 1..Len(s) : i # j => f[i] # f[j]}}

\* every record a registry value holds, in either index
Records(d) ==
    {d.byName[n] : n \in DOMAIN d.byName}
        \cup UNION {{d.byUid[u][i] : i \in 1..Len(d.byUid[u])} :
                       u \in DOMAIN d.byUid}

\* the pseudo package of the caller
SelfPkg == [ZeroPkg EXCEPT !.Name = SelfName, !.Uid = Getuid]

\* the owner id a package element resolves to: userId, else sharedUserId
ResolvedUid(x) == IF x.Uid > 0 THEN x.Uid ELSE x.SharedUid

---------------------------------------------------------------------------
(* C1: fail-closed rebuild.  When a lookup finds a file newer than the     *)
(* registry and the rebuild fails (a file cannot be read, or a parser      *)
(* returns an error, a certificate that does not decode included), byName, *)
(* byUid and lastUpd are what they were, and the lookup is answered from   *)
(* them.                                                                   *)
C1_FailClosed ==
    [][(/\ phase = "open"
        /\ last'.op \in Lookups
        /\ CanStat
        /\ Newer
        /\ RebuildFails)
       => (/\ db' = db
           /\ phase' = "open"
           /\ last'.ret = ReadOf(db, last'))]_vars

\* a lookup has just attempted a rebuild that failed on a certificate, and
\* answered with a record of the snapshot before it
C1_Witness ==
    /\ phase = "open"
    /\ last.op \in Lookups
    /\ last.path = "refresh"
    /\ RebuildFails
    /\ parseXML(xmlF).err.kind = "x509"
    /\ last.ret # <<>>
    /\ xmlF.mtime > db.lastUpd

---------------------------------------------------------------------------
(* C2: a stale lookup answers from the new snapshot.  When a lookup finds  *)
(* a file newer than the registry, both files can be stat-ed and both      *)
(* parse, then the registry the lookup reads is the merge of the files as  *)
(* they are now, stamped no earlier than either modification time, and a   *)
(* name that is in neither file is no longer found.                        *)
C2_StaleLookupRebuilds ==
    [][(/\ phase = "open"
        /\ last'.op \in Lookups
        /\ CanStat
        /\ Newer
        /\ ParsesOK)
       => (/\ \E ord \in RangeOrders(MergedNames(parseXML(xmlF).pkgs,
                                                  parseList(listF).pkgs)) :
                 db' = Publish(db, BuildMaps(parseXML(xmlF).pkgs,
                                             parseList(listF).pkgs,
                                             ord, buildprop), now)
           /\ last'.ret = ReadOf(db', last')
           /\ db'.lastUpd >= listF.mtime
           /\ db'.lastUpd >= xmlF.mtime
           /\ \A nm \in (NameArgs \cup {NameB}) \ (XmlNames \cup ListNames) :
                 (buildprop \/ nm # SelfName)
                     => /\ ReadByName(db', nm) = <<>>
                        /\ \A p \in Records(db') : p.Name # nm)]_vars

\* a lookup of a, made after packages.xml was rewritten without a, has
\* rebuilt the registry and found nothing
C2_Witness ==
    /\ JustRebuilt
    /\ last.op = "GetByName"
    /\ last.nm = NameA
    /\ last.ret = <<>>
    /\ now > 1
    /\ xmlF.mtime = now
    /\ db.lastUpd = now
    /\ DOMAIN db.byName # {}

---------------------------------------------------------------------------
(* C3: merge overlay.  After a rebuild, a name that is in both files has   *)
(* DataPath, SEinfo and Gid of its line in packages.list, and Uid, Path,   *)
(* Cert and Certhash of its element in packages.xml.                       *)
C3_MergeOverlay ==
    JustRebuilt =>
        \A n \in XmlNames \cap ListNames :
            /\ n \in DOMAIN db.byName
            /\ LET p == db.byName[n]
                   l == LastNamed(parseList(listF).pkgs, n)
                   x == LastNamed(parseXML(xmlF).pkgs, n)
               IN  /\ p.DataPath = l.DataPath
                   /\ p.SEinfo = l.SEinfo
                   /\ p.Gid = l.Gid
                   /\ p.Uid = x.Uid
                   /\ p.Path = x.Path
                   /\ p.Cert = x.Cert
                   /\ p.Certhash = x.Certhash

---------------------------------------------------------------------------
(* C4: publication is atomic for concurrent callers.  Whenever a caller    *)
(* has passed its maybeRefresh and is about to read the registry for its   *)
(* answer, byName, byUid and lastUpd are those of one completed            *)
(* publication: never the new byName beside the old byUid or lastUpd.      *)
C4_AtomicPublication ==
    (rd.pc = "read" \/ wr.pc = "read") =>
        /\ db.byName = LastWhole.byName
        /\ db.byUid = LastWhole.byUid
        /\ db.lastUpd = LastWhole.lastUpd

---------------------------------------------------------------------------
(* C5: the error of a failed rebuild reaches the caller whose call         *)
(* attempted the rebuild, OpenPackageDB or a lookup.                       *)
C5_ErrorSurfaced ==
    (/\ phase = "open"
     /\ last.op \in Lookups \cup {"OpenPackageDB"}
     /\ last.path = "refresh"
     /\ RebuildFails)
        => last.err # NoErr

---------------------------------------------------------------------------
(* C6: the two indices agree.  Every record of a byUid bucket is the       *)
(* byName entry of its own name and sits in the bucket of its own Uid, and *)
(* every byName record is in byUid exactly once.                           *)
C6_DualIndexConsistent ==
    /\ \A u \in DOMAIN db.byUid : \A i \in 1..Len(db.byUid[u]) :
          LET p == db.byUid[u][i]
          IN  /\ p.Uid = u
              /\ p.Name \in DOMAIN db.byName
              /\ db.byName[p.Name] = p
    /\ \A n \in DOMAIN db.byName :
          /\ db.byName[n].Name = n
          /\ Cardinality({ui \in UNION {{<<u, i>> : i \in 1..Len(db.byUid[u])} :
                                           u \in DOMAIN db.byUid} :
                             db.byUid[ui[1]][ui[2]] = db.byName[n]}) = 1

---------------------------------------------------------------------------
(* C7: packages.xml is the source of identity.  After a rebuild, every     *)
(* record but the pseudo package of the caller has a name that is a        *)
(* package element of packages.xml and the owner id that element resolves  *)
(* to.                                                                     *)
C7_MarkupIdentity ==
    JustRebuilt =>
        \A p \in Records(db) :
            \/ ~buildprop /\ p = SelfPkg
            \/ /\ p.Name \in XmlNames
               /\ p.Uid = ResolvedUid(LastNamed(xmlF.content.Pkgs, p.Name))

(* C7, amended: a record whose name is a package element of packages.xml   *)
(* has the owner id the last such element resolves to; any other record    *)
(* but the pseudo package has a name of packages.list and the owner id of  *)
(* the first line of that name.                                            *)
C7_IdentityAmended ==
    JustRebuilt =>
        \A p \in Records(db) :
            \/ ~buildprop /\ p = SelfPkg
            \/ /\ p.Name \in XmlNames
               /\ p.Uid = ResolvedUid(LastNamed(xmlF.content.Pkgs, p.Name))
            \/ /\ p.Name \notin XmlNames
               /\ p.Name \in ListNames
               /\ p.Uid = FirstNamed(parseList(listF).pkgs, p.Name).Uid

\* a rebuild has published a record of packages.xml whose line in
\* packages.list names another owner id, and a record of packages.list alone
C7_Witness ==
    /\ JustRebuilt
    /\ NameA \in XmlNames \cap ListNames
    /\ LastNamed(parseList(listF).pkgs, NameA).Uid
           # ResolvedUid(LastNamed(xmlF.content.Pkgs, NameA))
    /\ NameC \in DOMAIN db.byName
    /\ NameC \notin XmlNames

---------------------------------------------------------------------------
(* C8: a file that cannot be stat-ed skips the refresh.  A lookup made     *)
(* while either file cannot be stat-ed attempts no rebuild, leaves the     *)
(* registry as it was and answers from it, whatever the other file's       *)
(* modification time.                                                      *)
C8_StatFailureSkips ==
    [][(/\ phase = "open"
        /\ last'.op \in Lookups
        /\ ~CanStat)
       => (/\ db' = db
           /\ phase' = "open"
           /\ last'.path = "nostat"
           /\ last'.ret = ReadOf(db, last'))]_vars

\* a lookup was answered from the registry while packages.list was gone and
\* packages.xml was newer than the registry
C8_Witness ==
    /\ phase = "open"
    /\ last.op \in Lookups
    /\ last.path = "nostat"
    /\ listF.st = "missing"
    /\ xmlF.mtime > db.lastUpd
    /\ last.ret # <<>>

---------------------------------------------------------------------------
(* C9: rebuild determinism.  Every rebuild over the files as they are      *)
(* yields the name index and the owner-id buckets, members and order, that *)
(* the rebuild just made yielded.                                          *)
C9_RebuildDeterminism ==
    JustRebuilt =>
        \A o \in refresh(ZeroDB, listF, xmlF, buildprop, now) :
            /\ o.db.byName = db.byName
            /\ o.db.byUid = db.byUid

---------------------------------------------------------------------------
(* C10: the first match is deterministic.  GetByUid returns nothing        *)
(* exactly when the bucket is empty, otherwise a member of the bucket, and *)
(* the member it returns is the one every rebuild over the same files      *)
(* would give.                                                             *)
C10_FirstMatchDeterministic ==
    (last.op = "GetByUid" /\ phase = "open") =>
        /\ last.ret = <<>> <=> ReadListByUid(db, last.uid) = <<>>
        /\ last.ret # <<>> =>
              \E i \in 1..Len(ReadListByUid(db, last.uid)) :
                  ReadListByUid(db, last.uid)[i] = last.ret[1]
        /\ JustRebuilt =>
              \A o \in refresh(ZeroDB, listF, xmlF, buildprop, now) :
                  ReadByUid(o.db, last.uid) = last.ret

---------------------------------------------------------------------------
(* C11: the pseudo package of the caller.  After a rebuild off Android,    *)
(* byName holds under caller-uid-<uid> a record with only Name and Uid     *)
(* set, the bucket of the caller's uid holds that record exactly once, and *)
(* holds nothing else when no package of the files has that uid; on        *)
(* Android every record comes from the files.                              *)
C11_SelfEntryInjected ==
    JustRebuilt =>
        LET merged == MergeList(parseList(listF).pkgs,
                                FromXML(parseXML(xmlF).pkgs, EmptyMap))
            bucket == ReadListByUid(db, Getuid)
        IN  IF ~buildprop
            THEN /\ ReadByName(db, SelfName) = <<SelfPkg>>
                 /\ Cardinality({i \in 1..Len(bucket) : bucket[i] = SelfPkg}) = 1
                 /\ (\A n \in DOMAIN merged : merged[n].Uid # Getuid)
                        => bucket = <<SelfPkg>>
            ELSE \A p \in Records(db) :
                    /\ p.Name \in XmlNames \cup ListNames
                    /\ p.Name \in DOMAIN merged
                    /\ p = merged[p.Name]

\* GetListByUid of the caller's uid has just rebuilt the registry and
\* returned a package of packages.list followed by the pseudo package
C11_Witness ==
    /\ JustRebuilt
    /\ ~buildprop
    /\ last.op = "GetListByUid"
    /\ last.uid = Getuid
    /\ Len(last.ret) = 2
    /\ last.ret[1].Name = NameA
    /\ last.ret[2] = SelfPkg

---------------------------------------------------------------------------
(* C12: owner-id resolution of parseXML.  When parseXML returns records,   *)
(* there is one per package element, in order, with the element's name and *)
(* with Uid the userId when it is above zero and the sharedUserId          *)
(* otherwise, itself above zero.  When an element has neither, parseXML    *)
(* returns an error and no records, and the error names that element when  *)
(* nothing before it fails on its certificate.                             *)
C12_OwnerIdResolution ==
    (phase = "parsed" /\ last.op = "parseXML") =>
        LET els == xmlF.content.Pkgs
            NoId == {i \in 1..Len(els) : els[i].Uid = 0 /\ els[i].SharedUid = 0}
            BadCert == {i \in 1..Len(els) :
                           els[i].Certstr \notin {<<>>, CertHex}}
        IN  /\ last.path = "ok" =>
                 /\ Len(last.ret) = Len(els)
                 /\ \A i \in 1..Len(els) :
                       /\ last.ret[i].Name = els[i].Name
                       /\ last.ret[i].Uid = ResolvedUid(els[i])
                       /\ last.ret[i].Uid > 0
            /\ NoId # {} =>
                 /\ last.path = "err"
                 /\ last.ret = <<>>
                 /\ \A i \in NoId :
                       (\A j \in 1..(i - 1) : j \notin NoId \cup BadCert)
                           => last.err = Err("nouid", <<>>, els[i].Name)

\* parseXML has resolved userId 0, sharedUserId 7 to owner id 7, and
\* userId 2, sharedUserId 7 to owner id 2
C12_Witness ==
    /\ phase = "parsed"
    /\ last.op = "parseXML"
    /\ last.path = "ok"
    /\ Len(last.ret) = 2
    /\ xmlF.content.Pkgs[1].Uid = 0
    /\ xmlF.content.Pkgs[1].SharedUid = 7
    /\ last.ret[1].Uid = 7
    /\ xmlF.content.Pkgs[2].Uid = 2
    /\ xmlF.content.Pkgs[2].SharedUid = 7
    /\ last.ret[2].Uid = 2

---------------------------------------------------------------------------
(* C13: certificate and fingerprint go together.  Every record of the      *)
(* registry has both Cert and Certhash or neither, and a Certhash is the   *)
(* digest, Sha1Size bytes long, of the bytes the certificate was parsed    *)
(* from.  After a rebuild the record of a package element has them exactly *)
(* when the element carries a certificate, of that certificate's bytes; a  *)
(* record of packages.list alone and the pseudo package have neither.      *)
C13_CertPairing ==
    /\ \A p \in Records(db) :
          /\ p.Cert = <<>> <=> p.Certhash = <<>>
          /\ p.Cert # <<>> =>
                /\ Len(p.Certhash) = Sha1Size
                /\ p.Certhash = Sha1Sum(p.Cert[1].Raw)
    /\ JustRebuilt =>
          \A p \in Records(db) :
              IF p.Name \in XmlNames /\ (buildprop \/ p # SelfPkg)
              THEN LET x == LastNamed(xmlF.content.Pkgs, p.Name)
                   IN  /\ x.Certstr = <<>> => p.Cert = <<>>
                       /\ x.Certstr = CertHex =>
                             /\ p.Cert # <<>>
                             /\ p.Cert[1].Raw = <<48, 171>>
              ELSE p.Cert = <<>>

\* a rebuild has published a record with a certificate, a record of
\* packages.list alone and the pseudo package
C13_Witness ==
    /\ JustRebuilt
    /\ ~buildprop
    /\ NameA \in DOMAIN db.byName
    /\ db.byName[NameA].Certhash # <<>>
    /\ NameC \in DOMAIN db.byName
    /\ NameC \notin XmlNames
    /\ SelfPkg \in Records(db)

---------------------------------------------------------------------------
(* C14: the merge does not depend on the order of the lines.  After a      *)
(* rebuild, the merge of the same package elements with the lines of       *)
(* packages.list in any other order gives the byName that was published.   *)
C14_LineOrderIndependent ==
    JustRebuilt =>
        \A ll \in Reorderings(parseList(listF).pkgs) :
            \A ord \in RangeOrders(MergedNames(parseXML(xmlF).pkgs, ll)) :
                BuildMaps(parseXML(xmlF).pkgs, ll, ord, buildprop).byName
                    = db.byName

---------------------------------------------------------------------------
(* C15: the handoff between genlines and parseList completes.  Whenever a  *)
(* run of parseList that did not panic can take no further step, parseList *)
(* has returned, the goroutine of genlines has closed the channel and      *)
(* ended, and no line is left in the channel.                              *)

C15_HandoffCompletes ==
    (par.pc \in {"open", "recv", "returned"} /\ ~ENABLED <<NextGen>>_vars)
        => /\ par.pc = "returned"
           /\ gen.pc = "done"
           /\ ch.closed
           /\ ch.buf = <<>>

\* parseList has returned an error and the goroutine waits to send into a
\* full channel
C15_BlockedOnFullBuffer ==
    /\ par.pc = "returned"
    /\ par.err # NoErr
    /\ gen.pc = "send"
    /\ Len(ch.buf) = ChanCap

\* parseList waits for a line that never comes: the read failed, the
\* goroutine goes round its loop
C15_ReaderLoops ==
    /\ par.pc = "recv"
    /\ ch.buf = <<>>
    /\ gen.pc = "read"
    /\ ifd.rest = <<>>
    /\ ifd.fail

\* a run without an error completes
C15_CompletesWithoutError ==
    /\ par.pc = "returned"
    /\ par.err = NoErr
    /\ Len(par.pa) > MaxLines
    /\ gen.pc = "done"
    /\ ch.closed
    /\ ch.buf = <<>>

---------------------------------------------------------------------------
(* C16: a failed rebuild is attempted again.  A rebuild that fails leaves  *)
(* the registry and lastUpd as they were; while both files can be stat-ed  *)
(* and one is newer than lastUpd every lookup attempts the rebuild, and    *)
(* when the files parse it publishes the merge of their contents, stamped  *)
(* now; a step that is no lookup and not OpenPackageDB leaves the registry *)
(* as it was.                                                              *)

C16_ReattemptAfterFailure ==
    [][ /\ (phase = "new" /\ last'.op = "OpenPackageDB" /\ ~ParsesOK)
              => db' = ZeroDB
        /\ (phase = "open" /\ last'.op \in Lookups /\ CanStat /\ Newer)
              => /\ last'.path \in {"refresh", "panic"}
                 /\ ~ParsesOK => db' = db
                 /\ ParsesOK =>
                       /\ db'.lastUpd = now
                       /\ \E ord \in RangeOrders(MergedNames(
                                        parseXML(xmlF).pkgs,
                                        parseList(listF).pkgs)) :
                             db' = Publish(db,
                                     BuildMaps(parseXML(xmlF).pkgs,
                                               parseList(listF).pkgs,
                                               ord, buildprop), now)
        /\ last'.op \notin Lookups \cup {"OpenPackageDB"} => db' = db
      ]_vars

\* OpenPackageDB failed at time 1, the files were put right at time 1, and
\* the lookup at time 2 has rebuilt the registry from them
C16_Witness ==
    /\ phase = "open"
    /\ last.op \in Lookups
    /\ last.path = "refresh"
    /\ listF.mtime = 1 /\ xmlF.mtime = 1
    /\ now = 2
    /\ db.lastUpd = 2
    /\ DOMAIN db.byName # {}

---------------------------------------------------------------------------
(* C17: a fresh registry agrees with the files.  Whenever no rebuild is in *)
(* progress, both files can be stat-ed and neither is newer than lastUpd,  *)
(* the files parse and byName and byUid are the merge of their contents.   *)

\* the registry holds the merge of the files as they are now
AgreesWithFiles ==
    /\ ParsesOK
    /\ \E ord \in RangeOrders(MergedNames(parseXML(xmlF).pkgs,
                                          parseList(listF).pkgs)) :
          LET m == BuildMaps(parseXML(xmlF).pkgs, parseList(listF).pkgs,
                             ord, buildprop)
          IN  db.byName = m.byName /\ db.byUid = m.byUid

C17_FreshConsistent ==
    (phase = "open" /\ wr.pc = "idle" /\ rd.pc = "idle" /\ CanStat /\ ~Newer)
        => AgreesWithFiles

\* the same of a registry stamped later than both files were written
C17_LaterStampConsistent ==
    (/\ phase = "open" /\ wr.pc = "idle" /\ rd.pc = "idle" /\ CanStat
     /\ listF.mtime < db.lastUpd /\ xmlF.mtime < db.lastUpd)
        => AgreesWithFiles

---------------------------------------------------------------------------
(* C18: fresh lookups do not rebuild.  A lookup made while neither file is *)
(* newer than lastUpd leaves byName, byUid and lastUpd as they were, calls *)
(* neither parser and answers from the registry as it was; LastUpdate      *)
(* leaves them as they were and returns lastUpd in every state, the files  *)
(* newer or not.                                                           *)

C18_FreshLookupsDoNotRebuild ==
    [][ /\ (phase = "open" /\ last'.op \in Lookups /\ ~Newer)
              => /\ db' = db
                 /\ last'.path \in {"fresh", "nostat"}
                 /\ CanStat => last'.path = "fresh"
                 /\ phase' = "open"
                 /\ last'.ret = ReadOf(db, last')
        /\ last'.op = "LastUpdate"
              => /\ db' = db
                 /\ phase' = phase
                 /\ last'.path = "none"
                 /\ last'.t = db.lastUpd
      ]_vars

\* a lookup has been answered from a fresh registry while packages.list
\* holds a line that parseList cannot read
C18_Witness ==
    /\ phase = "open"
    /\ last.op \in Lookups
    /\ last.path = "fresh"
    /\ last.ret # <<>>
    /\ CanStat /\ ~Newer
    /\ parseList(listF).kind # "ok"

\* LastUpdate has returned while a file is newer than lastUpd
C18_LastUpdateWhileStale ==
    /\ phase = "open"
    /\ last.op = "LastUpdate"
    /\ CanStat /\ Newer
    /\ last.t = db.lastUpd

---------------------------------------------------------------------------
(* C20: parseList is total on malformed lines.  Whatever the number of     *)
(* fields of a line that is not blank, parseList returns: either records,  *)
(* one for each line, or an error and no records; an owner id or a group   *)
(* id that is no number gives an error that carries the text of that field *)
(* and the name of the package.                                            *)

\* the last line of packages.list
LastLine == listF.content[Len(listF.content)]

C20_ParserTotal ==
    last.op = "parseList"
        => /\ phase # "crashed"
           /\ last.path \in {"ok", "err"}
           /\ last.path = "ok"
                 => /\ last.err = NoErr
                    /\ Len(last.ret) = Len(listF.content)
           /\ last.path = "err"
                 => /\ last.ret = <<>>
                    /\ last.err.kind \in {"uid", "gid"}
                    /\ last.err.pkg = LastLine[1]
                    /\ last.err.kind = "uid" => last.err.text = LastLine[2]
                    /\ last.err.kind = "gid" => last.err.text = <<"g">>

\* the same of the lines of six fields and more
C20_TotalFromSixFields ==
    (last.op = "parseList" /\ Len(LastLine) >= 6) => C20_ParserTotal

\* a line of more than six fields has given a record
C20_SevenFieldsParsed ==
    /\ last.op = "parseList"
    /\ Len(LastLine) > 6
    /\ last.path = "ok"
    /\ last.ret[Len(last.ret)].Name = NameC

\* an owner id that is no number has given an error on a line of two fields
C20_BadUidNamed ==
    /\ last.op = "parseList"
    /\ Len(LastLine) = 2
    /\ last.err = Err("uid", <<"u", "2">>, NameC)

---------------------------------------------------------------------------
(* C19: published snapshots are never mutated.  Every map that was ever    *)
(* published and every record it points to holds what it held when it was  *)
(* published, and every record a lookup returned holds what it held then;  *)
(* an iterator ranges over one published map (or the nil map), what it     *)
(* has sent are entries of that map under different keys, and once it has  *)
(* closed its channel it has sent every entry.                             *)

\* the published map an iterator ranges over, as it was published
ItPublished ==
    IF it.m = 0 THEN {EmptyMap}
    ELSE {IF it.by = "name" THEN pub.snaps[i].byName ELSE pub.snaps[i].byUid :
             i \in {j \in 1..Len(pub.snaps) :
                       it.m = IF it.by = "name" THEN pub.snaps[j].nm
                              ELSE pub.snaps[j].um}}

C19_SnapshotsImmutable ==
    /\ \A i \in 1..Len(pub.snaps) :
          LET s == pub.snaps[i]
          IN  /\ heap.nm[s.nm] = s.byName
              /\ heap.um[s.um] = s.byUid
              /\ \A a \in DOMAIN s.rec : heap.rec[a] = s.rec[a]
    /\ \A g \in pub.got : heap.rec[g.a] = g.val
    /\ it.pc \in {"range", "done"}
          => \E m \in ItPublished :
                LET sent == it.out \o it.buf
                IN  /\ Len(sent) = Cardinality(it.seen)
                    /\ it.seen \subseteq DOMAIN m
                    /\ \A i \in 1..Len(sent) : \E k \in it.seen : sent[i] = m[k]
                    /\ \A i, j \in 1..Len(sent) : i # j => sent[i] # sent[j]
                    /\ it.closed => it.seen = DOMAIN m

\* an iterator has sent some entries of a map, not yet all, and the
\* registry has been rebuilt since it read the map; a record returned by a
\* lookup before belongs to the map that was replaced
C19_Witness ==
    /\ it.pc = "range"
    /\ it.out # <<>>
    /\ DOMAIN ItMap \ it.seen # {}
    /\ it.m # 0
    /\ it.m # (IF it.by = "name" THEN ptr.byName ELSE ptr.byUid)
    /\ \E g \in pub.got : g.a \notin AddrsOfNames(NameMapOf(heap, ptr.byName))

\* the registry as values is what the pointers stand for
HeapAgrees == phase \in {"new", "open"} => Deref(heap, ptr) = db

=============================================================================
